---- MODULE Spec2Model ----
(***************************************************************************)
(* A model of GlUtils::Mesh (Mesh.hpp, Mesh.cpp): the Wavefront .obj       *)
(* loader loadFromObjFile, reached through Mesh(path) and fromObjFile(path)*)
(* and the element / byte count accessors.                                 *)
(*                                                                         *)
(* A line of text is [prefix, toks]: its first two characters and the      *)
(* whitespace separated tokens of the remainder.  A numeric token is an    *)
(* integer, NaT stands for any token that is not a number.  Coordinates    *)
(* are small integers, exactly representable as float.                     *)
(***************************************************************************)
EXTENDS Integers, Sequences, FiniteSets, TLC

\* ---------------------------------------------------------------- bounds
MaxLines == 5        \* lines of the first file loaded
MaxRare == 1         \* lines of one file that are not in CoreLines
MaxReloadLines == 2  \* lines of a file loaded into a Mesh that was loaded before
MaxBadAt == 1        \* lines consumed before a read fails
MaxRepeat == 2       \* iterations of the read loop on a bad stream
MaxLoads == 2        \* calls of loadFromObjFile on one Mesh
MaxSmall == 12       \* SpecSizes: vertex counts 0..MaxSmall and BigFirst..BigFirst+MaxSmall
BigFirst == 5592400  \* SpecSizes: first of the large vertex counts
MaxFaces == 4        \* SpecSizes: face counts 0..MaxFaces

\* ------------------------------------------------------- program constants
USHRT_MAX == 65535   \* largest unsigned short: indices are vector<unsigned short>
SizeofFloat == 4
SizeofUShort == 2
NaT == -1            \* a token operator>> cannot convert
NaN == -999          \* the float NaN, result of normalising the zero vector

VARIABLES
    vertices,      \* vector<float>: 3 floats per vertex
    normals,       \* vector<float>: 3 floats per normal
    indices,       \* vector<unsigned short>
    glm_vertices,  \* vector<glm::vec3>, scratch
    glm_normals,   \* vector<glm::vec3>, scratch
    in,            \* the ifstream: lines consumed so far, eofbit, badbit
    line,          \* the local string `line`
    pc,            \* "idle": no load running; "loop": at the test of the while loop
    outcome,       \* how the last load ended: "none", "running", "ok", or the exception thrown
    what,          \* the message of the exception thrown, as the pieces streamed into it
    objFileName,   \* the argument of the last load
    uninit,        \* per consumed line, the indeterminate values a, b, c held before extraction
    loads,         \* number of loads begun on this Mesh
    before,        \* size() of vertices, normals, indices when the last load was called
    repeats,       \* loop iterations of the running load that re-ran the body on a stale line
    size           \* size() of vertices, normals, indices

vars == <<vertices, normals, indices, glm_vertices, glm_normals, in, line, pc,
          outcome, what, objFileName, uninit, loads, before, repeats, size>>

\* ------------------------------------------------------------- inputs
P0 == <<0, 0, 0>>
P1 == <<1, 0, 0>>
P2 == <<0, 1, 0>>
Zero3 == <<0, 0, 0>>
NaN3 == <<NaN, NaN, NaN>>

Ln(p, t) == [prefix |-> p, toks |-> t]
Blank == Ln("", <<>>)

CoreLines ==
    { Ln("v ", P0), Ln("v ", P1), Ln("v ", P2),
      Ln("f ", <<1, 2, 3>>), Ln("f ", <<1, 3, 2>>) }
RareLines ==
    { Ln("vn", <<0, 0, 1>>),          \* a line of another prefix
      Ln("f ", <<0, 1, 2>>),          \* a face index of 0
      Ln("v ", <<1, NaT, 1>>),        \* a token that is no number
      Ln("f ", <<1, 2>>) }            \* a token missing
LineSet == CoreLines \cup RareLines

\* values an uninitialised unsigned short may hold
Indeterminate == {0, 1}

Existing == {"mesh.obj"}
Missing == {"absent.obj", "locked.obj"}

\* A v / f line whose remainder is not exactly three numeric tokens.
Malformed(l) ==
    /\ l.prefix \in {"v ", "f "}
    /\ \/ Len(l.toks) # 3
       \/ \E k \in 1..Len(l.toks) : l.toks[k] = NaT

NumRare(data) == Cardinality({k \in 1..Len(data) : data[k] \in RareLines})

\* ------------------------------------------------------ stream extraction
\* operator>>(float&): [ok, val]
ConvFloat(tok) == IF tok = NaT THEN [ok |-> FALSE, val |-> 0] ELSE [ok |-> TRUE, val |-> tok]

\* operator>>(unsigned short&): [ok, val]; failure stores 0, overflow stores the maximum
ConvUShort(tok) ==
    IF tok = NaT THEN [ok |-> FALSE, val |-> 0]
    ELSE IF tok > USHRT_MAX THEN [ok |-> FALSE, val |-> USHRT_MAX]
    ELSE [ok |-> TRUE, val |-> tok]

\* operator>> into a target of type ty, "float" or "ushort"
Conv(ty, tok) == IF ty = "ushort" THEN ConvUShort(tok) ELSE ConvFloat(tok)

\* the stream is still good after k extractions
GoodAfter(toks, k, ty) == \A j \in 1..k : j <= Len(toks) /\ Conv(ty, toks[j]).ok

\* extraction k does not write its target: the stream has failed before, or is at its end
Untouched(toks, k, ty) == ~GoodAfter(toks, k - 1, ty) \/ k > Len(toks)

\* s >> x1; s >> x2; s >> x3, the targets of type ty holding init before
Extract3(toks, init, ty) ==
    [k \in 1..3 |-> IF Untouched(toks, k, ty) THEN init[k] ELSE Conv(ty, toks[k]).val]

\* the (a, b, c) the extraction of an f line can leave indeterminate values in
JunkFor(l) ==
    IF l.prefix = "f "
    THEN { g \in [1..3 -> Indeterminate \cup {0}] :
             \A k \in 1..3 : ~Untouched(l.toks, k, "ushort") => g[k] = 0 }
    ELSE { [k \in 1..3 |-> 0] }

\* x-- on an unsigned short
Dec(x) == (x + USHRT_MAX) % (USHRT_MAX + 1)

\* ----------------------------------------------------------- loop body
\* line.substr(0,2) == "v ": glm::vec3 v (zero initialised); s >> v.x >> v.y >> v.z; push_back
BodyVertices(gv, l) ==
    IF l.prefix = "v " THEN Append(gv, Extract3(l.toks, Zero3, "float")) ELSE gv

\* line.substr(0,2) == "f ": s >> a >> b >> c; a--; b--; c--; three push_backs
BodyIndices(idx, l, g) ==
    IF l.prefix = "f "
    THEN LET abc == Extract3(l.toks, g, "ushort")
         IN idx \o <<Dec(abc[1]), Dec(abc[2]), Dec(abc[3])>>
    ELSE idx

\* ------------------------------------------------------------- vectors
\* mutant of ResetVec: the vector is not reset
ResetVecKeep(vec) == vec

\* vector::resize(0)
ResetVec(vec) == <<>>

\* mutant of Resize: the vector is not resized
ResizeForgotten(vec, n, fill) == vec

\* vector::resize(n, fill)
Resize(vec, n, fill) ==
    IF Len(vec) >= n THEN SubSeq(vec, 1, n)
    ELSE vec \o [k \in 1..(n - Len(vec)) |-> fill]

RECURSIVE Flatten(_)
\* push_back(v.x), push_back(v.y), push_back(v.z) for each v
Flatten(vs) ==
    IF vs = <<>> THEN <<>> ELSE <<vs[1][1], vs[1][2], vs[1][3]>> \o Flatten(Tail(vs))

\* ------------------------------------------------------------- normals
Sub(u, v) == <<u[1] - v[1], u[2] - v[2], u[3] - v[3]>>
Cross(u, v) == <<u[2] * v[3] - u[3] * v[2], u[3] * v[1] - u[1] * v[3], u[1] * v[2] - u[2] * v[1]>>
Dot(u, v) == u[1] * v[1] + u[2] * v[2] + u[3] * v[3]

\* glm::normalize: v * inversesqrt(dot(v, v)); 0 * inf is NaN.  Exact where the
\* length is an integer, which the model's coordinates (all in the plane z = 0) ensure.
Normalize(v) ==
    IF Dot(v, v) = 0 THEN NaN3
    ELSE LET len == CHOOSE r \in 1..Dot(v, v) : r * r = Dot(v, v)
         IN <<v[1] \div len, v[2] \div len, v[3] \div len>>

\* the face normal of triangle (ia, ib, ic), 0-based, over positions gv
FaceNormal(gv, ia, ib, ic) ==
    Normalize(Cross(Sub(gv[ib + 1], gv[ia + 1]), Sub(gv[ic + 1], gv[ia + 1])))

\* vector::at(i) does not throw
InRange(i, n) == i < n

\* mutant of AssignNormal: a normal that was assigned before is kept
AssignNormalKeepFirst(gn, ia, ib, ic, normal) ==
    [k \in 1..Len(gn) |->
        IF k \in {ia + 1, ib + 1, ic + 1} /\ gn[k] = Zero3 THEN normal ELSE gn[k]]

\* glm_normals.at(ia) = glm_normals.at(ib) = glm_normals.at(ic) = normal
AssignNormal(gn, ia, ib, ic, normal) ==
    [k \in 1..Len(gn) |-> IF k \in {ia + 1, ib + 1, ic + 1} THEN normal ELSE gn[k]]

\* mutant of TriangleStep: a triangle with an index out of range is skipped
TriangleStepSkip(gv, gn, ia, ib, ic) ==
    IF InRange(ia, Len(gv)) /\ InRange(ib, Len(gv)) /\ InRange(ic, Len(gv))
    THEN [thrown |-> FALSE, glm_normals |-> AssignNormal(gn, ia, ib, ic, FaceNormal(gv, ia, ib, ic))]
    ELSE [thrown |-> FALSE, glm_normals |-> gn]

\* one iteration of the normals loop; at() throws std::out_of_range
TriangleStep(gv, gn, ia, ib, ic) ==
    IF InRange(ia, Len(gv)) /\ InRange(ib, Len(gv)) /\ InRange(ic, Len(gv))
    THEN [thrown |-> FALSE, glm_normals |-> AssignNormal(gn, ia, ib, ic, FaceNormal(gv, ia, ib, ic))]
    ELSE [thrown |-> TRUE, glm_normals |-> gn]

RECURSIVE NormalsLoop(_, _, _, _)
\* for (i = 0; i < indices.size(); i += 3)
NormalsLoop(i, gv, idx, gn) ==
    IF i >= Len(idx) THEN [thrown |-> FALSE, glm_normals |-> gn]
    ELSE LET r == TriangleStep(gv, gn, idx[i + 1], idx[i + 2], idx[i + 3])
         IN IF r.thrown THEN r ELSE NormalsLoop(i + 3, gv, idx, r.glm_normals)

\* ------------------------------------------------------------ accessors
RECURSIVE Pow2(_)
Pow2(k) == IF k = 0 THEN 1 ELSE 2 * Pow2(k - 1)

RECURSIVE Log2(_)
\* floor(log2(n)), n >= 1
Log2(n) == IF n < 2 THEN 0 ELSE 1 + Log2(n \div 2)

\* round to nearest, ties to even
RoundDiv(a, b) ==
    LET q == a \div b
        r == a % b
    IN IF 2 * r > b \/ (2 * r = b /\ q % 2 = 1) THEN q + 1 ELSE q

\* (float) n for a size_t n: 24 bits of mantissa
ToFloat(n) ==
    IF n < Pow2(24) THEN n
    ELSE LET ulp == Pow2(Log2(n) - 23) IN RoundDiv(n, ulp) * ulp

\* (size_t)(n / 3.0f): the float quotient, rounded to 24 bits, then truncated
DivBy3f(n) ==
    LET x == ToFloat(n)
        e == Log2(x \div 3)                 \* the quotient lies in [2^e, 2^(e+1))
    IN IF x < 3 THEN 0
       ELSE IF e >= 23 THEN RoundDiv(x, 3 * Pow2(e - 23)) * Pow2(e - 23)
       ELSE RoundDiv(x * Pow2(23 - e), 3) \div Pow2(23 - e)

getNumVertexBytes(sz) == sz.vertices * SizeofFloat
getNumNormalBytes(sz) == sz.normals * SizeofFloat
getNumIndexBytes(sz) == sz.indices * SizeofUShort
getNumVertices(sz) == DivBy3f(sz.vertices)
getNumNormals(sz) == DivBy3f(sz.normals)
getNumIndices(sz) == sz.indices

Sizes(v, n, i) == [vertices |-> Len(v), normals |-> Len(n), indices |-> Len(i)]

\* ------------------------------------------------------------- the load
\* mutant of OpenErrorMessage: the path is left out
OpenErrorMessageNoPath(p) == <<"Unable to open .obj file: ", "\n">>

\* errorMessage << "Unable to open .obj file: " << objFileName << endl
OpenErrorMessage(p) == <<"Unable to open .obj file: ", p, "\n">>

\* ifstream in(objFileName, ios::in): nothing consumed, no state bit set
Opened == [data |-> <<>>, eof |-> FALSE, bad |-> FALSE]

\* mutant of LineAfterEmptyRead: the string keeps the line read before
LineAfterEmptyReadStale(l) == l

\* getline() that extracts nothing: the sentry succeeded, so str.erase() has run
LineAfterEmptyRead(l) == Blank

\* getline() whose sentry fails (the stream is not good): str is not touched
LineAfterFailedSentry(l) == l

Init ==
    /\ vertices = <<>>
    /\ normals = <<>>
    /\ indices = <<>>
    /\ glm_vertices = <<>>
    /\ glm_normals = <<>>
    /\ in = Opened
    /\ line = Blank
    /\ pc = "idle"
    /\ outcome = "none"
    /\ what = <<>>
    /\ objFileName = ""
    /\ uninit = <<>>
    /\ loads = 0
    /\ before = Sizes(<<>>, <<>>, <<>>)
    /\ repeats = 0
    /\ size = Sizes(<<>>, <<>>, <<>>)

\* Mesh(p) / fromObjFile(p), the file cannot be opened: reset, then throw ShaderException
LoadOpenFail(p) ==
    /\ pc = "idle"
    /\ loads < MaxLoads
    /\ vertices' = ResetVec(vertices)
    /\ normals' = ResetVec(normals)
    /\ indices' = ResetVec(indices)
    /\ glm_vertices' = ResetVec(glm_vertices)
    /\ glm_normals' = ResetVec(glm_normals)
    /\ in' = Opened
    /\ line' = Blank
    /\ outcome' = "ShaderException"
    /\ what' = OpenErrorMessage(p)
    /\ objFileName' = p
    /\ uninit' = <<>>
    /\ loads' = loads + 1
    /\ before' = Sizes(vertices, normals, indices)
    /\ repeats' = 0
    /\ size' = Sizes(vertices', normals', indices')
    /\ UNCHANGED pc

\* Mesh(p) / fromObjFile(p), the file opens: reset, reach the while loop
LoadBegin(p) ==
    /\ pc = "idle"
    /\ loads < MaxLoads
    /\ vertices' = ResetVec(vertices)
    /\ normals' = ResetVec(normals)
    /\ indices' = ResetVec(indices)
    /\ glm_vertices' = ResetVec(glm_vertices)
    /\ glm_normals' = ResetVec(glm_normals)
    /\ in' = Opened
    /\ line' = Blank
    /\ outcome' = "running"
    /\ what' = <<>>
    /\ objFileName' = p
    /\ uninit' = <<>>
    /\ loads' = loads + 1
    /\ before' = Sizes(vertices, normals, indices)
    /\ repeats' = 0
    /\ size' = Sizes(vertices', normals', indices')
    /\ pc' = "loop"

\* the if / else if of the loop body on `line` = l, a, b, c holding g
Body(l, g) ==
    /\ line' = l
    /\ glm_vertices' = BodyVertices(glm_vertices, l)
    /\ indices' = BodyIndices(indices, l, g)
    /\ size' = Sizes(vertices, normals, indices')
    /\ UNCHANGED <<vertices, normals, glm_normals, pc, outcome, what, objFileName, loads, before>>

CanRead(l) ==
    /\ pc = "loop"
    /\ ~in.eof
    /\ ~in.bad
    /\ Len(in.data) < (IF loads = 1 THEN MaxLines ELSE MaxReloadLines)
    /\ NumRare(Append(in.data, l)) <= MaxRare

\* one iteration: getline() delivers l and consumes its newline
ReadLine(l, g) ==
    /\ CanRead(l)
    /\ in' = [in EXCEPT !.data = Append(@, l)]
    /\ uninit' = Append(uninit, g)
    /\ Body(l, g)
    /\ UNCHANGED repeats

\* one iteration: getline() delivers l, the last line, which no newline ends: eofbit
ReadLast(l, g) ==
    /\ CanRead(l)
    /\ in' = [in EXCEPT !.data = Append(@, l), !.eof = TRUE]
    /\ uninit' = Append(uninit, g)
    /\ Body(l, g)
    /\ UNCHANGED repeats

\* one iteration: nothing is left after the last newline (or the file is empty):
\* getline() sets eofbit and failbit
ReadEnd ==
    /\ pc = "loop"
    /\ ~in.eof
    /\ ~in.bad
    /\ in' = [in EXCEPT !.eof = TRUE]
    /\ Body(LineAfterEmptyRead(line), [k \in 1..3 |-> 0])
    /\ UNCHANGED <<uninit, repeats>>

\* one iteration: the read fails (badbit): ifstream::failure is caught and logged;
\* `line` holds what getline() had appended: nothing, or the text of the line
ReadBad(l, g) ==
    /\ pc = "loop"
    /\ ~in.eof
    /\ ~in.bad
    /\ Len(in.data) <= MaxBadAt
    /\ in' = [in EXCEPT !.bad = TRUE]
    /\ Body(l, g)
    /\ UNCHANGED <<uninit, repeats>>

\* one iteration on a bad stream: eof() is false, getline() throws at its sentry,
\* the exception is caught and logged, the body runs on `line` again
Spin(g) ==
    /\ pc = "loop"
    /\ ~in.eof
    /\ in.bad
    /\ repeats < MaxRepeat
    /\ repeats' = repeats + 1
    /\ Body(LineAfterFailedSentry(line), g)
    /\ UNCHANGED <<in, uninit>>

\* eof(): the loop ends; normals, copy to vertices / normals, clear the scratch vectors
Finish ==
    /\ pc = "loop"
    /\ in.eof
    /\ LET r == NormalsLoop(0, glm_vertices, indices,
                            Resize(glm_normals, Len(glm_vertices), Zero3))
       IN IF r.thrown
          THEN /\ outcome' = "out_of_range"
               /\ glm_normals' = r.glm_normals
               /\ UNCHANGED <<vertices, normals, glm_vertices>>
          ELSE /\ outcome' = "ok"
               /\ vertices' = vertices \o Flatten(glm_vertices)
               /\ normals' = normals \o Flatten(r.glm_normals)
               /\ glm_vertices' = ResetVec(glm_vertices)
               /\ glm_normals' = ResetVec(r.glm_normals)
    /\ pc' = "idle"
    /\ line' = Blank
    /\ size' = Sizes(vertices', normals', indices)
    /\ UNCHANGED <<indices, in, what, objFileName, uninit, loads, before, repeats>>

Next ==
    \/ \E p \in Missing : LoadOpenFail(p)
    \/ \E p \in Existing : LoadBegin(p)
    \/ \E l \in LineSet : \E g \in JunkFor(l) : ReadLine(l, g)
    \/ \E l \in LineSet : \E g \in JunkFor(l) : ReadLast(l, g)
    \/ ReadEnd
    \/ \E l \in LineSet \cup {Blank} : \E g \in JunkFor(l) : ReadBad(l, g)
    \/ \E g \in JunkFor(line) : Spin(g)
    \/ Finish

Spec == Init /\ [][Next]_vars

\* ------------------------------------------------- sizes of large meshes
(***************************************************************************)
(* The accessors read nothing but size() of the three vectors.  SpecSizes  *)
(* follows a Mesh by these sizes alone (the contents are not tracked), so  *)
(* that meshes of millions of vertices are in reach.                       *)
(***************************************************************************)
VertexCounts == (0..MaxSmall) \cup (BigFirst..(BigFirst + MaxSmall))

\* a load of a well-formed file of nv `v` lines and nf lines `f 1 1 1`: the resets,
\* 3 push_backs per face, 3 push_backs per vertex into vertices and into normals
LoadSized(nv, nf) ==
    /\ pc = "idle"
    /\ nf > 0 => nv > 0
    /\ before' = size
    /\ size' = [vertices |-> 3 * nv, normals |-> 3 * nv, indices |-> 3 * nf]
    /\ outcome' = "ok"
    /\ UNCHANGED <<vertices, normals, indices, glm_vertices, glm_normals, in, line, pc,
                   what, objFileName, uninit, loads, repeats>>

NextSizes == \E nv \in VertexCounts : \E nf \in 0..MaxFaces : LoadSized(nv, nf)

SpecSizes == Init /\ [][NextSizes]_vars

\* ---------------------------------------------------------------- claims
Succeeded == pc = "idle" /\ outcome = "ok"
Failed == pc = "idle" /\ outcome \in {"ShaderException", "out_of_range"}

NumPositions == Len(vertices) \div 3
Position(v) == <<vertices[3 * v - 2], vertices[3 * v - 1], vertices[3 * v]>>
NormalOf(v) == <<normals[3 * v - 2], normals[3 * v - 1], normals[3 * v]>>
NumTriangles == Len(indices) \div 3
Triangle(t) == <<indices[3 * t - 2], indices[3 * t - 1], indices[3 * t]>>

\* size tracks the vectors (a check of the model, not a claim)
SizeTracksVectors == size = Sizes(vertices, normals, indices)

\* C1: whenever a load ends in failure, positions, normals and indices are all empty.
C1_FailedLoadLeavesEmpty ==
    Failed => vertices = <<>> /\ normals = <<>> /\ indices = <<>>

C3_CountsConsistent ==
    pc = "idle" =>
        /\ getNumNormals(size) = getNumVertices(size)
        /\ getNumIndices(size) % 3 = 0

\* a load of a Mesh that held vertices has failed and has left indices behind
C3_Witness ==
    /\ Failed
    /\ before.vertices > 0
    /\ indices # <<>>

RECURSIVE ParseAll(_, _, _, _)
\* the loop body over the lines of data, a, b, c holding junk[k] at line k
ParseAll(data, junk, gv, idx) ==
    IF data = <<>> THEN [glm_vertices |-> gv, indices |-> idx]
    ELSE ParseAll(Tail(data), Tail(junk),
                  BodyVertices(gv, Head(data)), BodyIndices(idx, Head(data), Head(junk)))

\* the state of a fresh Mesh after a successful load of the file data
FreshLoad(data, junk) ==
    LET p == ParseAll(data, junk, <<>>, <<>>)
        r == NormalsLoop(0, p.glm_vertices, p.indices,
                         Resize(<<>>, Len(p.glm_vertices), Zero3))
    IN [vertices |-> Flatten(p.glm_vertices),
        normals |-> Flatten(r.glm_normals),
        indices |-> p.indices]

\* C4: after a successful load the Mesh is what a fresh Mesh is after a load of the
\* same file, whatever it held before (the indeterminate values read on malformed
\* face lines being the same).
C4_ResetBased ==
    Succeeded =>
        [vertices |-> vertices, normals |-> normals, indices |-> indices]
            = FreshLoad(in.data, uninit)

\* a successful load into a Mesh that held other vertices and indices
C4_Witness ==
    /\ Succeeded
    /\ loads >= 2
    /\ before.vertices > 0
    /\ before.indices > 0
    /\ size.vertices > 0
    /\ size # before

\* C5: when the file cannot be opened the exception's message includes the path,
\* no line was read, and all three counts are 0.
C5_OpenFailure ==
    outcome = "ShaderException" =>
        /\ pc = "idle"
        /\ \E k \in 1..Len(what) : what[k] = objFileName
        /\ in.data = <<>>
        /\ getNumVertices(size) = 0
        /\ getNumNormals(size) = 0
        /\ getNumIndices(size) = 0

\* the open failed on a Mesh that held vertices and indices
C5_Witness ==
    /\ outcome = "ShaderException"
    /\ before.vertices > 0
    /\ before.indices > 0

\* C6: a file with a malformed v or f line is never loaded successfully.
C6_MalformedLineRejected ==
    Succeeded => \A i \in 1..Len(in.data) : ~Malformed(in.data[i])

\* n is the unit normal of triangle tri over the stored positions: parallel to the
\* cross product of its edges, of the same sense, of length 1 (NaN if degenerate)
IsFaceNormal(n, tri) ==
    LET a == Position(tri[1] + 1)
        b == Position(tri[2] + 1)
        c == Position(tri[3] + 1)
        x == Cross(Sub(b, a), Sub(c, a))
    IN IF x = Zero3 THEN n = NaN3
       ELSE /\ Dot(n, n) = 1
            /\ Cross(n, x) = Zero3
            /\ Dot(n, x) > 0

\* the triangles that reference vertex v (1-based)
Referencing(v) == {t \in 1..NumTriangles : \E k \in 1..3 : Triangle(t)[k] = v - 1}

\* C7: after a successful load the normal of a referenced vertex is the face normal of
\* the last triangle that references it; that of an unreferenced vertex is zero.
C7_OverwriteNormals ==
    Succeeded =>
        \A v \in 1..NumPositions :
            IF Referencing(v) = {} THEN NormalOf(v) = Zero3
            ELSE LET last == CHOOSE t \in Referencing(v) : \A u \in Referencing(v) : u <= t
                 IN IsFaceNormal(NormalOf(v), Triangle(last))

\* a vertex shared by two triangles of different face normals
C7_Witness ==
    /\ Succeeded
    /\ \E v \in 1..NumPositions : \E t, u \in Referencing(v) :
          /\ t < u
          /\ IsFaceNormal(NormalOf(v), Triangle(u))
          /\ ~IsFaceNormal(NormalOf(v), Triangle(t))

\* C8: the byte counts are the element counts times the element size.
C8_BytesMatchCounts ==
    /\ getNumVertexBytes(size) = getNumVertices(size) * 3 * SizeofFloat
    /\ getNumNormalBytes(size) = getNumNormals(size) * 3 * SizeofFloat
    /\ getNumIndexBytes(size) = getNumIndices(size) * SizeofUShort

\* C9: once a read has failed the loop ends: its body does not run again on the line
\* it ran on before.
C9_NoLineTwice == repeats = 0

WellFormedFile(data) == \A i \in 1..Len(data) : ~Malformed(data[i])

RECURSIVE TokensOf(_, _)
\* the tokens of the lines of prefix p, in file order
TokensOf(data, p) ==
    IF data = <<>> THEN <<>>
    ELSE (IF Head(data).prefix = p THEN Head(data).toks ELSE <<>>) \o TokensOf(Tail(data), p)

====
